---- MODULE Spec2Model ----
(***************************************************************************)
(* OPD token allocation engine: slots, tokens and the per-doctor waiting   *)
(* queue, with the service operations that mutate them                     *)
(* (AllocationService, CancellationService, EmergencyService,              *)
(* WaitingQueueService, TokenController.updateTokenStatus).                *)
(*                                                                         *)
(* Time is an integer; DayLen instants make one day.  A slot's `date` is   *)
(* the midnight of its day, its startTime/endTime lie inside that day.     *)
(* The query operand '$maxCapacity' is read as the slot's own maxCapacity  *)
(* field, the comparison every query that uses it is written to express.   *)
(***************************************************************************)
EXTENDS Integers, Sequences, FiniteSets, TLC

VARIABLES slots, tokens, waiting, now, last, procs

vars == <<slots, tokens, waiting, now, last, procs>>

(***************************************************************************)
(* Bounds                                                                  *)
(***************************************************************************)
MaxTokens == 2
MaxWaiting == 2
MaxNow == 2
MaxCapacity == 1
CapLimit == 2
MaxDeficit == 0
MaxBurst == 3
MaxRefundTime == 52

(***************************************************************************)
(* The seeded world: doctor 1 owns slots 1, 2 (same day, consecutive       *)
(* hours) and 3 (next day); doctor 2 owns slot 4.                          *)
(***************************************************************************)
NoSlot == 0
NoToken == 0
DayLen == 3
ExpiryDays == 7
TicksPerHour == 2
Doctors == {1, 2}
SlotIds == {1, 2, 3, 4}
SlotDoctor == <<1, 1, 1, 2>>
SlotDate == <<0, 0, DayLen, 0>>
SlotStart == <<1, 2, DayLen + 1, 1>>
SlotEnd == <<2, 3, DayLen + 2, 2>>
SeedCapacity == <<MaxCapacity, MaxCapacity, MaxCapacity, MaxCapacity>>

Sources == {"emergency", "paid_priority", "follow_up", "online", "walk_in"}
RequestSources == {"online", "paid_priority"}
TokenStatuses == {"booked", "checked_in", "completed", "no_show", "cancelled"}
AppointmentTimes == {0, 1}

PRIORITY_LEVELS ==
  [emergency |-> 100, paid_priority |-> 80, follow_up |-> 60,
   online |-> 40, walk_in |-> 20]

calculatePriorityScore(source) == PRIORITY_LEVELS[source]

\* a threshold that admits an occupant of the requester's own score
getMinPriorityForReallocationOwnScore(source) ==
  calculatePriorityScore(source) + 1

getMinPriorityForReallocation(source) ==
  [emergency |-> 90, paid_priority |-> 70, follow_up |-> 50,
   online |-> 30, walk_in |-> 10][source]

(***************************************************************************)
(* Sequence helpers                                                        *)
(***************************************************************************)
RECURSIVE FilterOut(_, _)
FilterOut(seq, x) ==
  IF seq = <<>> THEN <<>>
  ELSE IF Head(seq) = x THEN FilterOut(Tail(seq), x)
       ELSE <<Head(seq)>> \o FilterOut(Tail(seq), x)

Range(seq) == {seq[i] : i \in 1..Len(seq)}

\* ids of a set in ascending order (natural order of a collection scan)
RECURSIVE Ascending(_)
Ascending(S) ==
  IF S = {} THEN <<>>
  ELSE LET m == CHOOSE x \in S : \A y \in S : x <= y
       IN <<m>> \o Ascending(S \ {m})

Min(S) == CHOOSE x \in S : \A y \in S : x <= y

\* sortByPriority(list)[list.length - 1]: stable descending sort, last element
LowestOfSortByPriority(tk, ids) ==
  LET m == Min({tk[ids[i]].priorityScore : i \in 1..Len(ids)})
      i == CHOOSE j \in 1..Len(ids) :
             /\ tk[ids[j]].priorityScore = m
             /\ \A k \in 1..Len(ids) : tk[ids[k]].priorityScore = m => k <= j
  IN ids[i]

\* tokens.sort((a, b) => a.priorityScore - b.priorityScore)[0]
LowestOfAscendingSort(tk, ids) ==
  LET m == Min({tk[ids[i]].priorityScore : i \in 1..Len(ids)})
      i == CHOOSE j \in 1..Len(ids) :
             /\ tk[ids[j]].priorityScore = m
             /\ \A k \in 1..Len(ids) : tk[ids[k]].priorityScore = m => j <= k
  IN ids[i]

\* .sort({ date: 1, startTime: 1 }) then findOne
EarliestSlot(S) ==
  IF S = {} THEN NoSlot
  ELSE CHOOSE s \in S : \A t \in S :
         \/ SlotDate[s] < SlotDate[t]
         \/ SlotDate[s] = SlotDate[t] /\ SlotStart[s] < SlotStart[t]
         \/ SlotDate[s] = SlotDate[t] /\ SlotStart[s] = SlotStart[t] /\ s <= t

(***************************************************************************)
(* Slot ledger updates as the services write them                          *)
(***************************************************************************)
\* a push that grows the slot's capacity when the counter passes it
SaveAfterPushGrowing(sl, s, doc, id) ==
  [sl EXCEPT ![s] =
     [@ EXCEPT !.allocatedTokens = Append(@, id),
               !.currentOccupancy = doc.currentOccupancy + 1,
               !.maxCapacity = IF doc.currentOccupancy + 1 > doc.maxCapacity
                               THEN doc.currentOccupancy + 1 ELSE @,
               !.status = IF doc.currentOccupancy + 1 >= doc.maxCapacity
                          THEN "full" ELSE @]]

\* a push that marks the slot full only once the counter has passed the
\* capacity
SaveAfterPushPastCapacity(sl, s, doc, id) ==
  [sl EXCEPT ![s] =
     [@ EXCEPT !.allocatedTokens = Append(@, id),
               !.currentOccupancy = doc.currentOccupancy + 1,
               !.status = IF doc.currentOccupancy + 1 > doc.maxCapacity
                          THEN "full" ELSE @]]

\* slot.allocatedTokens.push(id); slot.currentOccupancy += 1; full when at
\* capacity; slot.save() -- `doc` is the slot document the caller holds in
\* memory: the push reaches the stored array, the counter and the status are
\* written from the document
SaveAfterPush(sl, s, doc, id) ==
  [sl EXCEPT ![s] =
     [@ EXCEPT !.allocatedTokens = Append(@, id),
               !.currentOccupancy = doc.currentOccupancy + 1,
               !.status = IF doc.currentOccupancy + 1 >= doc.maxCapacity
                          THEN "full" ELSE @]]

\* the same, by a caller that loaded the document in the same step
PushToken(sl, s, id) == SaveAfterPush(sl, s, sl[s], id)

\* filter + decrement; reopen when status full and below capacity
ReleaseGuarded(sl, s, id) ==
  [sl EXCEPT ![s] =
     [@ EXCEPT !.allocatedTokens = FilterOut(@, id),
               !.currentOccupancy = @ - 1,
               !.status = IF @ = "full" /\
                             sl[s].currentOccupancy - 1 < sl[s].maxCapacity
                          THEN "available" ELSE @]]

\* filter + decrement; reopen whenever status was full
ReleaseReopen(sl, s, id) ==
  [sl EXCEPT ![s] =
     [@ EXCEPT !.allocatedTokens = FilterOut(@, id),
               !.currentOccupancy = @ - 1,
               !.status = IF @ = "full" THEN "available" ELSE @]]

NewToken(doctorId, slotId, source, score, appointmentTime, isRealloc, orig) ==
  [doctorId |-> doctorId, slotId |-> slotId, source |-> source,
   priorityScore |-> score, status |-> "booked",
   appointmentTime |-> appointmentTime,
   isReallocation |-> isRealloc, originalSlotId |-> orig]

(***************************************************************************)
(* AllocationService queries                                               *)
(***************************************************************************)
findAvailableSlot(sl, tk, doctorId, preferredTime, source) ==
  LET free == {s \in DOMAIN sl :
                 /\ SlotDoctor[s] = doctorId
                 /\ SlotDate[s] >= preferredTime
                 /\ sl[s].status \in {"available", "full"}
                 /\ sl[s].currentOccupancy < sl[s].maxCapacity}
      full == {s \in DOMAIN sl :
                 /\ SlotDoctor[s] = doctorId
                 /\ SlotDate[s] >= preferredTime
                 /\ sl[s].status = "full"
                 /\ sl[s].currentOccupancy >= sl[s].maxCapacity}
      f == EarliestSlot(full)
  IN IF free # {} THEN EarliestSlot(free)
     ELSE IF f # NoSlot /\ Len(sl[f].allocatedTokens) > 0 /\
             tk[LowestOfSortByPriority(tk, sl[f].allocatedTokens)].priorityScore
               < getMinPriorityForReallocation(source)
          THEN f
          ELSE NoSlot

\* a next-slot query that looks at the status only
findNextAvailableSlotAfterByStatus(sl, date, doctorId) ==
  EarliestSlot({s \in DOMAIN sl :
                  /\ SlotDoctor[s] = doctorId
                  /\ SlotDate[s] > date
                  /\ sl[s].status = "available"})

findNextAvailableSlotAfter(sl, date, doctorId) ==
  EarliestSlot({s \in DOMAIN sl :
                  /\ SlotDoctor[s] = doctorId
                  /\ SlotDate[s] > date
                  /\ sl[s].status = "available"
                  /\ sl[s].currentOccupancy < sl[s].maxCapacity})

(***************************************************************************)
(* Waiting queue                                                           *)
(***************************************************************************)
WaitingOf(wq, doctorId) ==
  {i \in 1..Len(wq) : wq[i].doctorId = doctorId /\ wq[i].status = "waiting"}

\* ids of S ascending by k1, then k2, ties in natural (id) order
RECURSIVE SortBy(_, _, _)
SortBy(S, k1, k2) ==
  IF S = {} THEN <<>>
  ELSE LET m == CHOOSE x \in S : \A y \in S \ {x} :
                  \/ k1[x] < k1[y]
                  \/ k1[x] = k1[y] /\ k2[x] < k2[y]
                  \/ k1[x] = k1[y] /\ k2[x] = k2[y] /\ x < y
       IN <<m>> \o SortBy(S \ {m}, k1, k2)

\* Waiting.find({doctorId, status:'waiting'}).sort({queuePosition: 1}); renumber
updateQueuePositions(wq, doctorId) ==
  LET list == SortBy(WaitingOf(wq, doctorId),
                     [i \in 1..Len(wq) |-> wq[i].queuePosition],
                     [i \in 1..Len(wq) |-> 0])
  IN [i \in 1..Len(wq) |->
        IF \E k \in 1..Len(list) : list[k] = i
        THEN [wq[i] EXCEPT !.queuePosition =
                CHOOSE k \in 1..Len(list) : list[k] = i]
        ELSE wq[i]]

\* addToWaitingQueue numbering from zero: queuePosition: queueCount
addToWaitingQueueZeroBased(wq, doctorId, source, priorityScore, preferredDate, t) ==
  Append(wq, [doctorId |-> doctorId, source |-> source,
              priorityScore |-> priorityScore, preferredDate |-> preferredDate,
              queuePosition |-> Cardinality(WaitingOf(wq, doctorId)),
              status |-> "waiting", expiresAt |-> t + ExpiryDays * DayLen,
              allocatedTokenId |-> NoToken])

addToWaitingQueue(wq, doctorId, source, priorityScore, preferredDate, t) ==
  Append(wq, [doctorId |-> doctorId, source |-> source,
              priorityScore |-> priorityScore, preferredDate |-> preferredDate,
              queuePosition |-> Cardinality(WaitingOf(wq, doctorId)) + 1,
              status |-> "waiting", expiresAt |-> t + ExpiryDays * DayLen,
              allocatedTokenId |-> NoToken])

(***************************************************************************)
(* Reallocation of the lowest-priority occupant                            *)
(***************************************************************************)
ActiveTokensOf(tk, s) ==
  Ascending({i \in 1..Len(tk) :
               tk[i].slotId = s /\ tk[i].status \in {"booked", "checked_in"}})

reallocateLowerPriorityToken(sl, tk, slot, newTokenPriority, doctorId) ==
  LET active == ActiveTokensOf(tk, slot)
      none == [ok |-> FALSE, sl |-> sl, tk |-> tk, displaced |-> NoToken]
  IN IF Len(active) = 0 THEN none
     ELSE
       LET lowest == LowestOfSortByPriority(tk, active)
           nextSlot == findNextAvailableSlotAfter(sl, SlotDate[slot], doctorId)
       IN IF tk[lowest].priorityScore >= newTokenPriority THEN none
          ELSE IF nextSlot = NoSlot THEN none
          ELSE [ok |-> TRUE,
                tk |-> [tk EXCEPT ![lowest] =
                          [@ EXCEPT !.slotId = nextSlot,
                                    !.appointmentTime = SlotStart[nextSlot],
                                    !.isReallocation = TRUE,
                                    !.originalSlotId = slot]],
                sl |-> PushToken(ReleaseGuarded(sl, slot, lowest),
                                 nextSlot, lowest),
                displaced |-> lowest]

(***************************************************************************)
(* allocateToken                                                           *)
(***************************************************************************)
Outcome(sl, tk, wq, result, tok, displaced, slot) ==
  [sl |-> sl, tk |-> tk, wq |-> wq, result |-> result, tok |-> tok,
   displaced |-> displaced, slot |-> slot]

\* allocateToken steps 1-5 without the check that the preferred slot belongs
\* to the requested doctor
allocateDecideAnyDoctor(sl, tk, wq, t, doctorId, source, preferredSlotId, appointmentTime) ==
  LET priorityScore == calculatePriorityScore(source)
      preferred == IF preferredSlotId # NoSlot /\
                      sl[preferredSlotId].currentOccupancy
                        < sl[preferredSlotId].maxCapacity
                   THEN preferredSlotId ELSE NoSlot
      targetSlot == IF preferred # NoSlot THEN preferred
                    ELSE findAvailableSlot(sl, tk, doctorId, appointmentTime,
                                           source)
      queued == [sl |-> sl, tk |-> tk,
                 wq |-> addToWaitingQueue(wq, doctorId, source, priorityScore,
                                          appointmentTime, t),
                 result |-> "queued", tok |-> NoToken, displaced |-> NoToken,
                 slot |-> NoSlot]
  IN IF targetSlot = NoSlot THEN queued
     ELSE IF sl[targetSlot].currentOccupancy >= sl[targetSlot].maxCapacity
          THEN LET r == reallocateLowerPriorityToken(sl, tk, targetSlot,
                                                     priorityScore, doctorId)
               IN IF r.ok
                  THEN [sl |-> r.sl, tk |-> r.tk, wq |-> wq,
                        result |-> "proceed", tok |-> NoToken,
                        displaced |-> r.displaced, slot |-> targetSlot]
                  ELSE queued
          ELSE [sl |-> sl, tk |-> tk, wq |-> wq, result |-> "proceed",
                tok |-> NoToken, displaced |-> NoToken, slot |-> targetSlot]

\* allocateToken steps 1-5: choose the target slot, displace or queue;
\* result "proceed" leaves the token to be created in `slot`
allocateDecide(sl, tk, wq, t, doctorId, source, preferredSlotId, appointmentTime) ==
  LET priorityScore == calculatePriorityScore(source)
      preferred == IF preferredSlotId # NoSlot /\
                      sl[preferredSlotId].currentOccupancy
                        < sl[preferredSlotId].maxCapacity
                   THEN preferredSlotId ELSE NoSlot
      targetSlot == IF preferred # NoSlot THEN preferred
                    ELSE findAvailableSlot(sl, tk, doctorId, appointmentTime,
                                           source)
      queued == Outcome(sl, tk,
                        addToWaitingQueue(wq, doctorId, source, priorityScore,
                                          appointmentTime, t),
                        "queued", NoToken, NoToken, NoSlot)
  IN IF preferredSlotId # NoSlot /\ SlotDoctor[preferredSlotId] # doctorId
     THEN Outcome(sl, tk, wq, "rejected", NoToken, NoToken, NoSlot)
     ELSE IF targetSlot = NoSlot THEN queued
     ELSE IF sl[targetSlot].currentOccupancy >= sl[targetSlot].maxCapacity
          THEN LET r == reallocateLowerPriorityToken(sl, tk, targetSlot,
                                                     priorityScore, doctorId)
               IN IF r.ok
                  THEN Outcome(r.sl, r.tk, wq, "proceed", NoToken,
                               r.displaced, targetSlot)
                  ELSE queued
          ELSE Outcome(sl, tk, wq, "proceed", NoToken, NoToken, targetSlot)

\* allocateToken steps 6-7: token.save(), then the slot update from the
\* slot document `doc` read in steps 2-3
allocateCommit(sl, tk, wq, targetSlot, doc, displaced, doctorId, source, preferredSlotId, appointmentTime) ==
  Outcome(SaveAfterPush(sl, targetSlot, doc, Len(tk) + 1),
          Append(tk, NewToken(doctorId, targetSlot, source,
                              calculatePriorityScore(source), appointmentTime,
                              preferredSlotId # NoSlot /\
                                preferredSlotId # targetSlot,
                              preferredSlotId)),
          wq, "admitted", Len(tk) + 1, displaced, targetSlot)

allocateToken(sl, tk, wq, t, doctorId, source, preferredSlotId, appointmentTime) ==
  LET d == allocateDecide(sl, tk, wq, t, doctorId, source, preferredSlotId,
                          appointmentTime)
  IN IF d.result = "proceed"
     THEN allocateCommit(d.sl, d.tk, d.wq, d.slot, d.sl[d.slot], d.displaced,
                         doctorId, source, preferredSlotId, appointmentTime)
     ELSE d

(***************************************************************************)
(* Promotion from the waiting queue                                        *)
(***************************************************************************)
RECURSIVE PromoteLoop(_, _, _, _, _)
PromoteLoop(sl, tk, wq, doctorId, list) ==
  IF list = <<>> THEN [sl |-> sl, tk |-> tk, wq |-> wq]
  ELSE
    LET w == Head(list)
        slot == findAvailableSlot(sl, tk, doctorId, wq[w].preferredDate,
                                  wq[w].source)
    IN IF slot = NoSlot THEN [sl |-> sl, tk |-> tk, wq |-> wq]
       ELSE PromoteLoop(
              PushToken(sl, slot, Len(tk) + 1),
              Append(tk, NewToken(doctorId, slot, wq[w].source,
                                  wq[w].priorityScore, SlotStart[slot],
                                  FALSE, NoSlot)),
              updateQueuePositions(
                [wq EXCEPT ![w] = [@ EXCEPT !.status = "allocated",
                                            !.allocatedTokenId = Len(tk) + 1]],
                doctorId),
              doctorId, Tail(list))

\* the promotion pass ending in its catch block before the first entry:
\* nothing is promoted
allocateFromWaitingQueueSkipped(sl, tk, wq, doctorId) ==
  [sl |-> sl, tk |-> tk, wq |-> wq]

\* the promotion pass with the tie-break reversed:
\* sort({ priorityScore: -1, queuePosition: -1 })
allocateFromWaitingQueueNewestFirst(sl, tk, wq, doctorId) ==
  PromoteLoop(sl, tk, wq, doctorId,
              SortBy(WaitingOf(wq, doctorId),
                     [i \in 1..Len(wq) |-> 0 - wq[i].priorityScore],
                     [i \in 1..Len(wq) |-> 0 - wq[i].queuePosition]))

allocateFromWaitingQueue(sl, tk, wq, doctorId) ==
  PromoteLoop(sl, tk, wq, doctorId,
              SortBy(WaitingOf(wq, doctorId),
                     [i \in 1..Len(wq) |-> 0 - wq[i].priorityScore],
                     [i \in 1..Len(wq) |-> wq[i].queuePosition]))

(***************************************************************************)
(* Cancellation, no-show, bulk cancel                                      *)
(***************************************************************************)
Terminal == {"completed", "cancelled", "no_show"}

SetStatus(tk, id, st) == [tk EXCEPT ![id] = [@ EXCEPT !.status = st]]

\* AllocationService.handleCancellation, after its status check
handleCancellation(sl, tk, wq, id) ==
  allocateFromWaitingQueue(ReleaseReopen(sl, tk[id].slotId, id),
                           SetStatus(tk, id, "cancelled"), wq, tk[id].doctorId)

\* a no-show that marks the token and frees the place without the promotion
\* pass
handleNoShowReleaseOnly(sl, tk, wq, id) ==
  [sl |-> ReleaseReopen(sl, tk[id].slotId, id),
   tk |-> SetStatus(tk, id, "no_show"), wq |-> wq]

\* AllocationService.handleNoShow
handleNoShow(sl, tk, wq, id) ==
  allocateFromWaitingQueue(ReleaseReopen(sl, tk[id].slotId, id),
                           SetStatus(tk, id, "no_show"), wq, tk[id].doctorId)

\* CancellationService.requestCancellation: does the check pass?
requestCancellation(tk, id, t) ==
  /\ tk[id].status \notin Terminal
  /\ tk[id].appointmentTime - t >= 0

\* CancellationService.processCancellation
processCancellation(sl, tk, id) ==
  [sl |-> ReleaseGuarded(sl, tk[id].slotId, id),
   tk |-> SetStatus(tk, id, "cancelled")]

\* CancellationService.bulkCancelSlot
bulkCancelSlot(sl, tk, s) ==
  [sl |-> [sl EXCEPT ![s] = [@ EXCEPT !.status = "cancelled",
                                      !.allocatedTokens = <<>>,
                                      !.currentOccupancy = 0]],
   tk |-> [i \in 1..Len(tk) |->
             IF i \in Range(sl[s].allocatedTokens) /\
                tk[i].status \notin {"completed", "cancelled"}
             THEN [tk[i] EXCEPT !.status = "cancelled"]
             ELSE tk[i]]]

(***************************************************************************)
(* Emergency                                                               *)
(***************************************************************************)
\* Slot.findOne({doctorId, startTime <= now <= endTime, status in [...]})
currentSlotOf(sl, doctorId, t) ==
  LET S == {s \in DOMAIN sl : /\ SlotDoctor[s] = doctorId
                            /\ SlotStart[s] <= t /\ SlotEnd[s] >= t
                            /\ sl[s].status \in {"available", "full"}}
  IN IF S = {} THEN NoSlot ELSE Min(S)

\* AllocationService.handleEmergency
handleEmergency(sl, tk, wq, t, doctorId) ==
  LET currentSlot == currentSlotOf(sl, doctorId, t)
      priorityScore == calculatePriorityScore("emergency")
      rejected == Outcome(sl, tk, wq, "rejected", NoToken, NoToken, NoSlot)
      admit(sl2, tk2, displaced) ==
        Outcome(PushToken(sl2, currentSlot, Len(tk2) + 1),
                Append(tk2, NewToken(doctorId, currentSlot, "emergency",
                                     priorityScore, t, FALSE, NoSlot)),
                wq, "admitted", Len(tk2) + 1, displaced, currentSlot)
  IN IF currentSlot = NoSlot THEN rejected
     ELSE IF sl[currentSlot].currentOccupancy >= sl[currentSlot].maxCapacity
          THEN LET r == reallocateLowerPriorityToken(sl, tk, currentSlot,
                                                     priorityScore, doctorId)
               IN IF r.ok THEN admit(r.sl, r.tk, r.displaced) ELSE rejected
          ELSE admit(sl, tk, NoToken)

\* EmergencyService.fastTrackEmergency
fastTrackEmergency(sl, tk, wq, t, doctorId) ==
  LET currentSlot == currentSlotOf(sl, doctorId, t)
      emergencyToken == Len(tk) + 1
      tk1 == Append(tk, NewToken(doctorId, currentSlot, "emergency", 100, t,
                                 FALSE, NoSlot))
      active == ActiveTokensOf(tk1, currentSlot)
      lowestPriority == LowestOfAscendingSort(tk1, active)
      nextSlot == EarliestSlot({s \in DOMAIN sl :
                                  /\ SlotDoctor[s] = doctorId
                                  /\ SlotDate[s] > SlotDate[currentSlot]
                                  /\ sl[s].status = "available"})
      finish(sl2, tk2, displaced) ==
        Outcome(PushToken(sl2, currentSlot, emergencyToken), tk2, wq,
                "admitted", emergencyToken, displaced, currentSlot)
  IN IF currentSlot = NoSlot
     THEN Outcome(sl, tk, wq, "rejected", NoToken, NoToken, NoSlot)
     ELSE IF sl[currentSlot].currentOccupancy >= sl[currentSlot].maxCapacity
             /\ Len(active) > 0 /\ nextSlot # NoSlot
          THEN finish(
                 [sl EXCEPT
                    ![nextSlot] =
                      [@ EXCEPT !.allocatedTokens = Append(@, lowestPriority),
                                !.currentOccupancy = @ + 1],
                    ![currentSlot] =
                      [@ EXCEPT !.allocatedTokens =
                                  FilterOut(@, lowestPriority),
                                !.currentOccupancy = @ - 1]],
                 [tk1 EXCEPT ![lowestPriority] =
                    [@ EXCEPT !.slotId = nextSlot,
                              !.appointmentTime = SlotStart[nextSlot],
                              !.isReallocation = TRUE]],
                 lowestPriority)
          ELSE finish(sl, tk1, NoToken)

\* EmergencyService.overrideSlotRules: the new maxCapacity
overrideCapacity(cap, emergencyLevel) ==
  IF emergencyLevel = "critical" THEN (3 * cap + 1) \div 2
  ELSE IF emergencyLevel = "high" THEN (5 * cap + 3) \div 4
  ELSE cap

(***************************************************************************)
(* WaitingQueueService                                                     *)
(***************************************************************************)
cancelWaiting(wq, w) ==
  updateQueuePositions([wq EXCEPT ![w] = [@ EXCEPT !.status = "cancelled"]],
                       wq[w].doctorId)

movePatientInQueue(wq, w, newPosition) ==
  LET oldPosition == wq[w].queuePosition
      lo == IF oldPosition < newPosition THEN oldPosition ELSE newPosition
      hi == IF oldPosition < newPosition THEN newPosition ELSE oldPosition
      affected(i) == /\ i # w
                     /\ wq[i].doctorId = wq[w].doctorId
                     /\ wq[i].status = "waiting"
                     /\ wq[i].queuePosition >= lo
                     /\ wq[i].queuePosition <= hi
  IN [i \in 1..Len(wq) |->
        IF i = w THEN [wq[i] EXCEPT !.queuePosition = newPosition]
        ELSE IF affected(i)
             THEN [wq[i] EXCEPT !.queuePosition =
                     IF oldPosition < newPosition THEN @ - 1 ELSE @ + 1]
             ELSE wq[i]]

cleanExpiredEntries(wq, t) ==
  [i \in 1..Len(wq) |->
     IF wq[i].status = "waiting" /\ wq[i].expiresAt < t
     THEN [wq[i] EXCEPT !.status = "expired"]
     ELSE wq[i]]

(***************************************************************************)
(* State machine: one action per service call, run to completion.  The     *)
(* actions take the sets their inputs are drawn from.                      *)
(***************************************************************************)
Procs == {1, 2}
\* a call in progress: where it stands and what it holds in memory
Proc(pc, doctorId, source, preferredSlotId, appointmentTime, slot, doc, displaced) ==
  [pc |-> pc, doctorId |-> doctorId, source |-> source,
   preferredSlotId |-> preferredSlotId, appointmentTime |-> appointmentTime,
   slot |-> slot, currentOccupancy |-> doc.currentOccupancy,
   maxCapacity |-> doc.maxCapacity, displaced |-> displaced]

NoDoc == [currentOccupancy |-> 0, maxCapacity |-> 0]
IdleProc == Proc("idle", 0, "", NoSlot, 0, NoSlot, NoDoc, NoToken)

SeedSlot(s) ==
  [maxCapacity |-> SeedCapacity[s], currentOccupancy |-> 0,
   status |-> "available", allocatedTokens |-> <<>>]

Last(op, result) == [op |-> op, result |-> result]

InitWith(ids, t) ==
  /\ slots = [s \in ids |-> SeedSlot(s)]
  /\ tokens = <<>>
  /\ waiting = <<>>
  /\ now = t
  /\ last = Last("init", "ok")
  /\ procs = [p \in Procs |-> IdleProc]

Write(r, op) ==
  /\ Len(r.tk) <= MaxTokens + MaxWaiting
  /\ Len(r.wq) <= MaxWaiting
  /\ \A w \in 1..Len(r.wq) : r.wq[w].queuePosition \in 0..(MaxWaiting + 1)
  /\ \A s \in DOMAIN r.sl : r.sl[s].currentOccupancy >= 0 - MaxDeficit
  /\ slots' = r.sl
  /\ tokens' = r.tk
  /\ waiting' = r.wq
  /\ last' = Last(op, r.result)

Apply(r, op) == Write(r, op) /\ UNCHANGED <<now, procs>>

Done(sl, tk, wq) == Outcome(sl, tk, wq, "ok", NoToken, NoToken, NoSlot)

Reject(op) ==
  /\ last' = Last(op, "rejected")
  /\ UNCHANGED <<slots, tokens, waiting, now, procs>>

AllocateToken(doctors, sources, preferred, times) ==
  \E doctorId \in doctors, source \in sources,
        preferredSlotId \in preferred \cap (DOMAIN slots \cup {NoSlot}),
        appointmentTime \in times :
    LET r == allocateToken(slots, tokens, waiting, now, doctorId, source,
                           preferredSlotId, appointmentTime)
    IN /\ r.result = "admitted" => Len(tokens) < MaxTokens
       /\ Apply(r, "allocateToken")

HandleCancellation ==
  \E id \in 1..Len(tokens) :
    IF tokens[id].status \in Terminal
    THEN Reject("handleCancellation")
    ELSE LET r == handleCancellation(slots, tokens, waiting, id)
         IN Apply(Done(r.sl, r.tk, r.wq), "handleCancellation")

\* CancellationController.cancelToken
CancelToken ==
  \E id \in 1..Len(tokens) :
    IF ~requestCancellation(tokens, id, now)
    THEN Reject("cancelToken")
    ELSE LET c == processCancellation(slots, tokens, id)
             r == allocateFromWaitingQueue(c.sl, c.tk, waiting,
                                           tokens[id].doctorId)
         IN Apply(Done(r.sl, r.tk, r.wq), "cancelToken")

HandleNoShow ==
  \E id \in 1..Len(tokens) :
    LET r == handleNoShow(slots, tokens, waiting, id)
    IN Apply(Done(r.sl, r.tk, r.wq), "handleNoShow")

BulkCancelSlot ==
  \E s \in DOMAIN slots :
    LET r == bulkCancelSlot(slots, tokens, s)
    IN Apply(Done(r.sl, r.tk, waiting), "bulkCancelSlot")

\* TokenController.updateTokenStatus
UpdateTokenStatus(statuses) ==
  \E id \in 1..Len(tokens), status \in statuses :
    Apply(Done(slots, SetStatus(tokens, id, status), waiting),
          "updateTokenStatus")

HandleEmergency(doctors) ==
  /\ Len(tokens) < MaxTokens
  /\ \E doctorId \in doctors :
       Apply(handleEmergency(slots, tokens, waiting, now, doctorId),
             "handleEmergency")

FastTrackEmergency(doctors) ==
  /\ Len(tokens) < MaxTokens
  /\ \E doctorId \in doctors :
       Apply(fastTrackEmergency(slots, tokens, waiting, now, doctorId),
             "fastTrackEmergency")

OverrideSlotRules ==
  \E s \in DOMAIN slots, emergencyLevel \in {"critical", "high", "medium"} :
    /\ overrideCapacity(slots[s].maxCapacity, emergencyLevel) <= CapLimit
    /\ Apply(Done([slots EXCEPT ![s] =
                     [@ EXCEPT !.maxCapacity =
                        overrideCapacity(@, emergencyLevel)]],
                  tokens, waiting),
             "overrideSlotRules")

CancelWaiting ==
  \E w \in 1..Len(waiting) :
    Apply(Done(slots, tokens, cancelWaiting(waiting, w)), "cancelWaiting")

MovePatientInQueue ==
  \E w \in 1..Len(waiting), newPosition \in 1..MaxWaiting :
    Apply(Done(slots, tokens, movePatientInQueue(waiting, w, newPosition)),
          "movePatientInQueue")

\* const now = new Date(); updateMany(...)
CleanExpiredEntries ==
  \E t \in {now} :
    Apply(Done(slots, tokens, cleanExpiredEntries(waiting, t)),
          "cleanExpiredEntries")

\* the clock advances by one instant
Tick ==
  /\ now < MaxNow
  /\ now' = now + 1
  /\ UNCHANGED <<slots, tokens, waiting, last, procs>>

\* a week passes with no request
WeekPasses ==
  /\ now = MaxNow
  /\ now' = now + ExpiryDays * DayLen
  /\ UNCHANGED <<slots, tokens, waiting, last, procs>>

(***************************************************************************)
(* Calls that overlap: a handler gives up control at each await, so two    *)
(* calls interleave between their database operations.  allocateToken is   *)
(* cut between its last read (steps 1-5) and token.save()/slot.save()      *)
(* (steps 6-7); CancellationController.cancelToken between                 *)
(* processCancellation and allocateFromWaitingQueue.                       *)
(***************************************************************************)
Saving == {p \in Procs : procs[p].pc = "save"}

AllocStart(p, doctors, sources, preferred, times) ==
  /\ procs[p].pc = "idle"
  /\ \E doctorId \in doctors, source \in sources,
        preferredSlotId \in preferred \cap (DOMAIN slots \cup {NoSlot}),
        appointmentTime \in times :
       LET d == allocateDecide(slots, tokens, waiting, now, doctorId, source,
                               preferredSlotId, appointmentTime)
       IN IF d.result = "proceed"
          THEN /\ Len(tokens) + Cardinality(Saving) < MaxTokens
               /\ Write(d, "allocateToken")
               /\ procs' = [procs EXCEPT ![p] =
                              Proc("save", doctorId, source, preferredSlotId,
                                   appointmentTime, d.slot, d.sl[d.slot],
                                   d.displaced)]
               /\ UNCHANGED now
          ELSE Apply(d, "allocateToken")

AllocSave(p) ==
  /\ procs[p].pc = "save"
  /\ Write(allocateCommit(slots, tokens, waiting, procs[p].slot, procs[p],
                          procs[p].displaced, procs[p].doctorId,
                          procs[p].source, procs[p].preferredSlotId,
                          procs[p].appointmentTime),
           "allocateToken")
  /\ procs' = [procs EXCEPT ![p] = IdleProc]
  /\ UNCHANGED now

CancelRelease(p) ==
  /\ procs[p].pc = "idle"
  /\ \E id \in 1..Len(tokens) :
       IF ~requestCancellation(tokens, id, now)
       THEN Reject("cancelToken")
       ELSE LET c == processCancellation(slots, tokens, id)
            IN /\ Write(Outcome(c.sl, c.tk, waiting, "released", NoToken,
                                NoToken, NoSlot), "cancelToken")
               /\ procs' = [procs EXCEPT ![p] =
                              Proc("promote", tokens[id].doctorId, "", NoSlot,
                                   0, tokens[id].slotId, NoDoc, NoToken)]
               /\ UNCHANGED now

CancelPromote(p) ==
  /\ procs[p].pc = "promote"
  /\ LET r == allocateFromWaitingQueue(slots, tokens, waiting,
                                       procs[p].doctorId)
     IN Write(Done(r.sl, r.tk, r.wq), "cancelToken")
  /\ procs' = [procs EXCEPT ![p] = IdleProc]
  /\ UNCHANGED now

\* cancelToken's locals across its awaits: the token id of the request and,
\* once the token is read back, its doctor
CancelCall(pc, token, doctorId) ==
  [pc |-> pc, token |-> token, doctorId |-> doctorId]

\* cancelToken up to the return of requestCancellation
CancelCheck(p) ==
  /\ procs[p].pc = "idle"
  /\ \E id \in 1..Len(tokens) :
       IF ~requestCancellation(tokens, id, now)
       THEN Reject("cancelToken")
       ELSE /\ procs' = [procs EXCEPT ![p] = CancelCall("process", id, 0)]
            /\ last' = Last("cancelToken", "allowed")
            /\ UNCHANGED <<slots, tokens, waiting, now>>

\* cancelToken: processCancellation, then Token.findById for the doctor
CancelProcess(p) ==
  /\ procs[p].pc = "process"
  /\ LET id == procs[p].token
         c == processCancellation(slots, tokens, id)
     IN /\ Write(Outcome(c.sl, c.tk, waiting, "released", NoToken, NoToken,
                         NoSlot), "cancelToken")
        /\ procs' = [procs EXCEPT ![p] =
                       CancelCall("promote", id, tokens[id].doctorId)]
  /\ UNCHANGED now

(***************************************************************************)
(* Refunds.  Here a token carries updatedAt, the time of its last save,    *)
(* and times are counted in ticks of 1/TicksPerHour hour.                  *)
(***************************************************************************)
\* requestRefund with the tier bounds exclusive: hoursBeforeAppointment > 24
requestRefundExclusive(tk, id) ==
  IF tk[id].status # "cancelled"
  THEN [ok |-> FALSE, refundPercentage |-> 0]
  ELSE LET ticks == tk[id].appointmentTime - tk[id].updatedAt
       IN [ok |-> TRUE,
           refundPercentage |->
             IF ticks > 24 * TicksPerHour THEN 100
             ELSE IF ticks > 12 * TicksPerHour THEN 75
             ELSE IF ticks > 6 * TicksPerHour THEN 50
             ELSE 0]

\* CancellationService.requestRefund; hoursBeforeAppointment is the fraction
\* ticks / TicksPerHour, compared with 24, 12 and 6
requestRefund(tk, id) ==
  IF tk[id].status # "cancelled"
  THEN [ok |-> FALSE, refundPercentage |-> 0]
  ELSE LET ticks == tk[id].appointmentTime - tk[id].updatedAt
       IN [ok |-> TRUE,
           refundPercentage |->
             IF ticks >= 24 * TicksPerHour THEN 100
             ELSE IF ticks >= 12 * TicksPerHour THEN 75
             ELSE IF ticks >= 6 * TicksPerHour THEN 50
             ELSE 0]

RequestRefund ==
  \E id \in 1..Len(tokens) :
    LET r == requestRefund(tokens, id)
    IN /\ last' = [op |-> "requestRefund",
                   result |-> IF r.ok THEN "ok" ELSE "rejected",
                   token |-> id, refundPercentage |-> r.refundPercentage]
       /\ UNCHANGED <<slots, tokens, waiting, now, procs>>

\* a token of slot 1 with the given status, appointment time and last save
StoredToken(status, appointmentTime, updatedAt) ==
  [doctorId |-> 1, slotId |-> 1, source |-> "online",
   priorityScore |-> calculatePriorityScore("online"), status |-> status,
   appointmentTime |-> appointmentTime, isReallocation |-> FALSE,
   originalSlotId |-> NoSlot, updatedAt |-> updatedAt]

(***************************************************************************)
(* Spec: doctor 1's three slots; booking, cancellation, no-show and the    *)
(* two emergency paths.                                                    *)
(***************************************************************************)
Init == InitWith({1, 2, 3}, 1)

Next ==
  \/ AllocateToken({1}, RequestSources, {NoSlot, 1, 2, 3}, AppointmentTimes)
  \/ HandleCancellation
  \/ HandleNoShow
  \/ HandleEmergency({1})
  \/ FastTrackEmergency({1})

Spec == Init /\ [][Next]_vars

(***************************************************************************)
(* Claims checked under Spec                                               *)
(***************************************************************************)
\* C1: in every reachable state every slot has currentOccupancy <= maxCapacity
C1_OccupancyWithinCapacity ==
  \A s \in DOMAIN slots : slots[s].currentOccupancy <= slots[s].maxCapacity

\* C2: in every reachable state every slot's currentOccupancy equals the
\* number of token ids in its allocatedTokens
C2_OccupancyIsMemberCount ==
  \A s \in DOMAIN slots :
    slots[s].currentOccupancy = Len(slots[s].allocatedTokens)

\* doctors that own a slot of the world
WorldDoctors == {SlotDoctor[s] : s \in DOMAIN slots}

\* slots of p's doctor that start after p and have a free place
LaterFreeSlots(p) ==
  {q \in DOMAIN slots : /\ SlotDoctor[q] = SlotDoctor[p]
                        /\ SlotStart[q] > SlotStart[p]
                        /\ slots[q].status = "available"
                        /\ slots[q].currentOccupancy < slots[q].maxCapacity}

IsFull(p) == slots[p].currentOccupancy >= slots[p].maxCapacity

\* C7: in every step that moves an existing token to another slot, the step
\* also creates a token and the moved token's score is strictly lower than
\* the created token's score
C7_DisplacedOnlyByHigherScore ==
  [][\A t \in 1..Len(tokens) :
       tokens'[t].slotId # tokens[t].slotId =>
         /\ Len(tokens') > Len(tokens)
         /\ tokens[t].priorityScore < tokens'[Len(tokens')].priorityScore]_vars

\* C8: in every reachable state, a request that names a full slot whose
\* active occupants all score lower than the request, while the doctor has a
\* later slot with a free place, is admitted into the named slot, the
\* lowest occupant moves to the earliest such later slot, and the named
\* slot's occupancy equals its capacity afterwards
C8_FullPreferredSlotDisplaces ==
  \A p \in DOMAIN slots, source \in RequestSources,
     appointmentTime \in AppointmentTimes :
    LET active == ActiveTokensOf(tokens, p)
        r == allocateToken(slots, tokens, waiting, now, SlotDoctor[p], source,
                           p, appointmentTime)
        lowest == LowestOfSortByPriority(tokens, active)
    IN (/\ IsFull(p)
        /\ Len(active) > 0
        /\ \A i \in 1..Len(active) :
             tokens[active[i]].priorityScore < calculatePriorityScore(source)
        /\ LaterFreeSlots(p) # {})
       => /\ r.result = "admitted"
          /\ r.slot = p
          /\ r.tk[lowest].slotId = EarliestSlot(LaterFreeSlots(p))
          /\ r.sl[p].currentOccupancy = r.sl[p].maxCapacity

\* C9: in every reachable state, an emergency for a doctor whose current
\* slot is full is admitted by moving one occupant exactly when the doctor
\* has a later slot with a free place
C9_EmergencyDisplacesWhenLaterSlotFree ==
  \A doctorId \in WorldDoctors :
    LET c == currentSlotOf(slots, doctorId, now)
        r == handleEmergency(slots, tokens, waiting, now, doctorId)
    IN (c # NoSlot /\ IsFull(c)) =>
         IF LaterFreeSlots(c) # {}
         THEN r.result = "admitted" /\ r.displaced # NoToken
         ELSE r.result = "rejected"

\* C10: in every reachable state, a request with no preferred slot, or with
\* a full one, is admitted into the earliest-starting slot of the doctor
\* that starts at or after appointmentTime and has a free place, whenever
\* there is one
C10_EarliestSlotWithCapacity ==
  \A doctorId \in WorldDoctors, source \in RequestSources,
     appointmentTime \in AppointmentTimes :
  \A p \in {NoSlot} \cup {q \in DOMAIN slots :
                            SlotDoctor[q] = doctorId /\ IsFull(q)} :
    LET cand == {s \in DOMAIN slots :
                   /\ SlotDoctor[s] = doctorId
                   /\ SlotStart[s] >= appointmentTime
                   /\ slots[s].status \in {"available", "full"}
                   /\ slots[s].currentOccupancy < slots[s].maxCapacity}
        first == CHOOSE s \in cand : \A t \in cand : SlotStart[s] <= SlotStart[t]
        r == allocateToken(slots, tokens, waiting, now, doctorId, source, p,
                           appointmentTime)
    IN cand # {} => r.result = "admitted" /\ r.slot = first

(***************************************************************************)
(* SpecQueue: one slot each for doctors 1 and 2, the waiting queue and its *)
(* maintenance, while time passes.                                         *)
(***************************************************************************)
InitQueue == InitWith({3, 4}, 1)

NextQueue ==
  \/ AllocateToken(Doctors, {"online"}, {NoSlot}, {0})
  \/ HandleCancellation
  \/ CancelWaiting
  \/ MovePatientInQueue
  \/ CleanExpiredEntries
  \/ Tick
  \/ WeekPasses

SpecQueue == InitQueue /\ [][NextQueue]_vars

\* C3: in every reachable state, for every doctor, the queuePosition values
\* of the doctor's 'waiting' entries are exactly 1..N, each once
C3_QueuePositionsDense ==
  \A doctorId \in Doctors :
    LET W == WaitingOf(waiting, doctorId)
    IN /\ {waiting[w].queuePosition : w \in W} = 1..Cardinality(W)
       /\ \A v, w \in W :
            waiting[v].queuePosition = waiting[w].queuePosition => v = w

(***************************************************************************)
(* SpecStatus: one slot of doctor 1 and every operation that writes a      *)
(* token's status.                                                         *)
(***************************************************************************)
InitStatus == InitWith({1}, 0)

NextStatus ==
  \/ AllocateToken({1}, {"online"}, {NoSlot}, AppointmentTimes)
  \/ UpdateTokenStatus(TokenStatuses)
  \/ HandleNoShow
  \/ HandleCancellation
  \/ CancelToken
  \/ BulkCancelSlot

SpecStatus == InitStatus /\ [][NextStatus]_vars

\* C4: in every step, a token whose status is cancelled, no_show or
\* completed keeps that status, and a checked_in token does not become booked
C4_StatusMovesForward ==
  [][\A t \in 1..Len(tokens) :
       /\ tokens[t].status \in Terminal => tokens'[t].status = tokens[t].status
       /\ tokens[t].status = "checked_in" => tokens'[t].status # "booked"]_vars

(***************************************************************************)
(* SpecConc: one slot of doctor 1, two callers whose allocateToken and     *)
(* cancelToken calls overlap.                                              *)
(***************************************************************************)
InitConc == InitWith({1}, 0)

NextConc ==
  \E p \in Procs :
    \/ AllocStart(p, {1}, RequestSources, {NoSlot, 1}, {0})
    \/ AllocSave(p)
    \/ CancelRelease(p)
    \/ CancelPromote(p)

SpecConc == InitConc /\ [][NextConc]_vars

\* C5: in every step taken between a cancellation's release and its
\* promotion, while the doctor's queue holds a waiting entry that the freed
\* slot would take, no token is created in the freed slot except by
\* promotion of a waiting entry
C5_NoAdmissionAheadOfQueue ==
  [][\A p \in Procs :
       (/\ procs[p].pc = "promote"
        /\ procs'[p].pc = "promote"
        /\ \E w \in WaitingOf(waiting, procs[p].doctorId) :
             findAvailableSlot(slots, tokens, procs[p].doctorId,
                               waiting[w].preferredDate, waiting[w].source)
               = procs[p].slot)
       => ~(/\ Len(tokens') > Len(tokens)
            /\ tokens'[Len(tokens')].slotId = procs[p].slot
            /\ \A w \in 1..Len(waiting') :
                 waiting'[w].allocatedTokenId # Len(tokens'))]_vars

\* C6: in every step in which an allocateToken call writes its admission,
\* the slot had a free place just before the write and its currentOccupancy
\* grows by exactly one
C6_NoLostUpdate ==
  [][\A p \in Procs :
       (procs[p].pc = "save" /\ procs'[p].pc = "idle") =>
         LET s == procs[p].slot
         IN /\ slots[s].currentOccupancy < slots[s].maxCapacity
            /\ slots'[s].currentOccupancy = slots[s].currentOccupancy + 1]_vars

(***************************************************************************)
(* SpecDesk: one slot each for doctors 1 and 2; requests for either doctor *)
(* that may name either slot, cancellation and no-show.                    *)
(***************************************************************************)
InitDesk == InitWith({3, 4}, 0)

NextDesk ==
  \/ AllocateToken(Doctors, RequestSources, {NoSlot, 3, 4}, {0})
  \/ HandleCancellation
  \/ HandleNoShow

SpecDesk == InitDesk /\ [][NextDesk]_vars

\* C11: in every reachable state, a request that names a slot of another
\* doctor is rejected, and the rejection leaves slots, tokens and the
\* waiting queue as they were
C11_DoctorMismatchRejected ==
  \A doctorId \in Doctors, source \in RequestSources, p \in DOMAIN slots :
    SlotDoctor[p] # doctorId =>
      LET r == allocateToken(slots, tokens, waiting, now, doctorId, source, p,
                             0)
      IN /\ r.result = "rejected"
         /\ r.sl = slots
         /\ r.tk = tokens
         /\ r.wq = waiting

\* a mismatched request was rejected while tokens and waiting entries exist
C11_Witness ==
  /\ last = Last("allocateToken", "rejected")
  /\ Len(tokens) > 0
  /\ Len(waiting) > 0

\* entry j is ranked above entry i of the same doctor: a higher score, or
\* the same score and an earlier arrival (entries are stored in arrival order)
RankedAbove(j, i) ==
  /\ waiting[j].doctorId = waiting[i].doctorId
  /\ \/ waiting[j].priorityScore > waiting[i].priorityScore
     \/ waiting[j].priorityScore = waiting[i].priorityScore /\ j < i

QueueOf(doctorId) == WaitingOf(waiting, doctorId)

\* token id is admitted in a full slot, its doctor has waiting entries and no
\* other slot of the doctor has a free place
FullSlotWithQueue(id) ==
  /\ tokens[id].status \in {"booked", "checked_in"}
  /\ tokens[id].slotId \in DOMAIN slots
  /\ id \in Range(slots[tokens[id].slotId].allocatedTokens)
  /\ QueueOf(tokens[id].doctorId) # {}
  /\ \A s \in DOMAIN slots :
       SlotDoctor[s] = tokens[id].doctorId =>
         slots[s].currentOccupancy = slots[s].maxCapacity

\* C13: a step that cancels one admitted token of a full slot, while the
\* doctor has waiting entries and no other free place, promotes the entry at
\* queue position 1 and moves every other waiting entry up by one position
C13_PositionOnePromoted ==
  [][\A id \in DOMAIN tokens :
       (FullSlotWithQueue(id) /\ tokens'[id].status = "cancelled") =>
         \A i \in QueueOf(tokens[id].doctorId) :
           IF waiting[i].queuePosition = 1
           THEN waiting'[i].status = "allocated"
           ELSE /\ waiting'[i].status = "waiting"
                /\ waiting'[i].queuePosition = waiting[i].queuePosition - 1]_vars

\* C14: in every reachable state, a request that is queued gets the position
\* 1 + the number of the doctor's waiting entries with a higher score or an
\* equal score (all of them were created earlier)
C14_PositionIsPriorityRank ==
  \A doctorId \in Doctors, source \in RequestSources :
    LET r == allocateToken(slots, tokens, waiting, now, doctorId, source,
                           NoSlot, 0)
    IN r.result = "queued" =>
         r.wq[Len(r.wq)].queuePosition =
           1 + Cardinality({i \in QueueOf(doctorId) :
                              waiting[i].priorityScore
                                >= calculatePriorityScore(source)})

\* k identical requests submitted one after another, each by allocateToken
RECURSIVE SubmitAll(_, _, _, _, _, _, _, _)
SubmitAll(sl, tk, wq, doctorId, source, preferredSlotId, appointmentTime, k) ==
  IF k = 0 THEN [sl |-> sl, tk |-> tk, wq |-> wq, results |-> <<>>]
  ELSE LET prev == SubmitAll(sl, tk, wq, doctorId, source, preferredSlotId,
                             appointmentTime, k - 1)
           r == allocateToken(prev.sl, prev.tk, prev.wq, now, doctorId,
                              source, preferredSlotId, appointmentTime)
       IN [sl |-> r.sl, tk |-> r.tk, wq |-> r.wq,
           results |-> Append(prev.results, r.result)]

\* every slot of the doctor is full and holds no occupant that scores less
\* than a request of this source, and the doctor's queue is empty
FullAndQueueEmpty(doctorId, source) ==
  /\ QueueOf(doctorId) = {}
  /\ \A s \in DOMAIN slots :
       SlotDoctor[s] = doctorId =>
         /\ slots[s].status = "full"
         /\ slots[s].currentOccupancy >= slots[s].maxCapacity
         /\ \A id \in Range(slots[s].allocatedTokens) :
              tokens[id].priorityScore >= calculatePriorityScore(source)

\* C15: in every reachable state in which a doctor's slots are all full with
\* no displaceable occupant and the doctor's queue is empty, k requests of
\* one score submitted one after another are all queued, at positions 1..k
\* in arrival order, and no slot or token changes
C15_EqualScoreBurstQueuedInOrder ==
  \A doctorId \in Doctors, source \in RequestSources :
    FullAndQueueEmpty(doctorId, source) =>
      \A p \in {NoSlot} \cup {s \in DOMAIN slots : SlotDoctor[s] = doctorId},
         appointmentTime \in AppointmentTimes, k \in 1..MaxBurst :
        LET r == SubmitAll(slots, tokens, waiting, doctorId, source, p,
                           appointmentTime, k)
        IN /\ \A j \in 1..k : r.results[j] = "queued"
           /\ r.sl = slots
           /\ r.tk = tokens
           /\ Len(r.wq) = Len(waiting) + k
           /\ \A j \in 1..k :
                /\ r.wq[Len(waiting) + j].doctorId = doctorId
                /\ r.wq[Len(waiting) + j].status = "waiting"
                /\ r.wq[Len(waiting) + j].queuePosition = j

\* two requests of one score have been queued one after the other behind a
\* full slot, at positions 1 and 2
C15_Witness ==
  /\ last = Last("allocateToken", "queued")
  /\ Len(waiting) = 2
  /\ waiting[1].doctorId = waiting[2].doctorId
  /\ waiting[1].priorityScore = waiting[2].priorityScore
  /\ waiting[1].status = "waiting" /\ waiting[1].queuePosition = 1
  /\ waiting[2].status = "waiting" /\ waiting[2].queuePosition = 2
  /\ \A s \in DOMAIN slots :
       SlotDoctor[s] = waiting[1].doctorId => slots[s].status = "full"

\* C16: in every step in which a cancellation entry point (cancelToken,
\* handleCancellation) turns a token cancelled, the token was booked or
\* checked in and its appointment had not started
C16_CancelOnlyBeforeStart ==
  [][\A id \in DOMAIN tokens :
       (/\ last'.op \in {"handleCancellation", "cancelToken"}
        /\ tokens[id].status # "cancelled"
        /\ tokens'[id].status = "cancelled") =>
         /\ tokens[id].status \in {"booked", "checked_in"}
         /\ tokens[id].appointmentTime >= now]_vars

(***************************************************************************)
(* SpecCancel: one slot of doctor 1; overlapping cancelToken calls, each   *)
(* split at its awaits, next to allocateToken and handleCancellation calls. *)
(***************************************************************************)
InitCancel == InitWith({1}, 0)

NextCancel ==
  \/ \E p \in Procs :
       \/ AllocStart(p, {1}, RequestSources, {NoSlot}, {0})
       \/ AllocSave(p)
       \/ CancelCheck(p)
       \/ CancelProcess(p)
       \/ CancelPromote(p)
  \/ HandleCancellation

SpecCancel == InitCancel /\ [][NextCancel]_vars

\* C17: in every step in which a cancelToken call processes a token that is
\* already cancelled, no slot changes (nothing is released a second time)
C17_SecondCancelReleasesNothing ==
  [][\A p \in Procs :
       (/\ procs[p].pc = "process"
        /\ procs'[p].pc # "process"
        /\ tokens[procs[p].token].status = "cancelled") =>
         slots' = slots]_vars

\* the highest-ranked waiting entry of a doctor: highest score, earliest
\* arrival among equals
TopOf(wq, doctorId) ==
  CHOOSE i \in WaitingOf(wq, doctorId) :
    \A j \in WaitingOf(wq, doctorId) :
      \/ wq[i].priorityScore > wq[j].priorityScore
      \/ wq[i].priorityScore = wq[j].priorityScore /\ i <= j

\* promotion has run to exhaustion for a doctor: no waiting entry is left,
\* or the highest-ranked one is not given any slot
Exhausted(sl, tk, wq, doctorId) ==
  \/ WaitingOf(wq, doctorId) = {}
  \/ findAvailableSlot(sl, tk, doctorId,
                       wq[TopOf(wq, doctorId)].preferredDate,
                       wq[TopOf(wq, doctorId)].source) = NoSlot

\* the step is the return of a successful cancel call for token id
CancelReturns(id) ==
  \/ /\ last' = Last("handleCancellation", "ok")
     /\ tokens[id].status \notin Terminal
     /\ tokens'[id].status = "cancelled"
  \/ \E p \in Procs :
       /\ procs[p].pc = "promote"
       /\ procs'[p].pc = "idle"
       /\ procs[p].token = id

C19_NoShowSameAsCancellation ==
  \A id \in DOMAIN tokens :
    (/\ tokens[id].status \in {"booked", "checked_in"}
     /\ id \in Range(slots[tokens[id].slotId].allocatedTokens)) =>
      LET c == handleCancellation(slots, tokens, waiting, id)
          n == handleNoShow(slots, tokens, waiting, id)
      IN /\ n.sl = c.sl
         /\ n.wq = c.wq
         /\ c.tk[id].status = "cancelled"
         /\ n.tk[id].status = "no_show"
         /\ SetStatus(n.tk, id, "cancelled") = c.tk

\* a no-show has freed a place and promoted a waiting entry into it, and
\* an admitted token is present
C19_Witness ==
  /\ last = Last("handleNoShow", "ok")
  /\ \E id \in DOMAIN tokens : tokens[id].status = "no_show"
  /\ \E i \in DOMAIN waiting :
       /\ waiting[i].status = "allocated"
       /\ tokens[waiting[i].allocatedTokenId].status = "booked"
       /\ waiting[i].allocatedTokenId
            \in Range(slots[tokens[waiting[i].allocatedTokenId].slotId]
                        .allocatedTokens)

(***************************************************************************)
(* SpecRefund: one stored token of any status, appointment time and time   *)
(* of last save; refund requests for it.                                   *)
(***************************************************************************)
InitRefund ==
  \E status \in TokenStatuses, appointmentTime \in 0..MaxRefundTime,
     updatedAt \in 0..MaxRefundTime :
    /\ tokens = <<StoredToken(status, appointmentTime, updatedAt)>>
    /\ slots = [s \in {1} |->
                  IF status \in {"booked", "checked_in"}
                  THEN PushToken([t \in {1} |-> SeedSlot(t)], 1, 1)[s]
                  ELSE SeedSlot(s)]
    /\ waiting = <<>>
    /\ now = updatedAt
    /\ last = Last("init", "ok")
    /\ procs = [p \in Procs |-> IdleProc]

NextRefund == RequestRefund

SpecRefund == InitRefund /\ [][NextRefund]_vars

\* the refund tier of h whole hours
RefundTier(h) ==
  IF h >= 24 THEN 100 ELSE IF h >= 12 THEN 75 ELSE IF h >= 6 THEN 50 ELSE 0

\* C20: in every step that answers a refund request, no slot, token or
\* waiting entry changes, the request is rejected exactly when the token is
\* not cancelled, and the percentage granted is the tier of the whole hours
\* between the token's cancellation (its last save) and its appointment
C20_RefundByWholeHours ==
  [][last'.op = "requestRefund" =>
       /\ UNCHANGED <<slots, tokens, waiting>>
       /\ last'.result = "rejected" <=>
            tokens[last'.token].status # "cancelled"
       /\ last'.result = "ok" =>
            last'.refundPercentage =
              RefundTier((tokens[last'.token].appointmentTime
                            - tokens[last'.token].updatedAt)
                           \div TicksPerHour)]_vars

\* a refund was granted for a token cancelled 23 and a half hours before
\* its appointment
C20_Witness ==
  /\ last.op = "requestRefund"
  /\ last.result = "ok"
  /\ last.refundPercentage = 75
  /\ tokens[last.token].appointmentTime - tokens[last.token].updatedAt
       = 24 * TicksPerHour - 1

\* no occupant of slot p can be relocated: no later slot of the doctor has a
\* free place, or no active occupant scores below an emergency
NoRelocation(p) ==
  \/ LaterFreeSlots(p) = {}
  \/ \A id \in Range(ActiveTokensOf(tokens, p)) :
       tokens[id].priorityScore >= calculatePriorityScore("emergency")

\* C21: in every reachable state, an emergency for a doctor whose current
\* slot is full and holds no occupant that can be relocated is rejected by
\* handleEmergency and by fastTrackEmergency, and neither creates a token nor
\* changes a slot
C21_EmergencyRejectedWhenNoRelocation ==
  \A doctorId \in WorldDoctors :
    LET c == currentSlotOf(slots, doctorId, now)
        h == handleEmergency(slots, tokens, waiting, now, doctorId)
        f == fastTrackEmergency(slots, tokens, waiting, now, doctorId)
    IN (c # NoSlot /\ IsFull(c) /\ NoRelocation(c)) =>
         /\ h.result = "rejected" /\ h.tk = tokens /\ h.sl = slots
         /\ f.result = "rejected" /\ f.tk = tokens /\ f.sl = slots

(***************************************************************************)
(* SpecOverride: doctor 1's current slot; booking, cancellation, emergency *)
(* fast-track and the capacity override.                                   *)
(***************************************************************************)
InitOverride == InitWith({1}, 1)

NextOverride ==
  \/ AllocateToken({1}, RequestSources, {NoSlot, 1}, {0})
  \/ HandleCancellation
  \/ FastTrackEmergency({1})
  \/ OverrideSlotRules

SpecOverride == InitOverride /\ [][NextOverride]_vars

\* the least integer n with den * n >= num * cap: ceil(cap * num / den)
CeilOf(cap, num, den) ==
  CHOOSE n \in 0..(num * cap) :
    /\ den * n >= num * cap
    /\ \A m \in 0..(num * cap) : den * m >= num * cap => n <= m

\* C22: in every reachable state and for every slot and level, the capacity
\* overrideSlotRules writes is ceil(old * 1.5) for 'critical' and
\* ceil(old * 1.25) for 'high', and for every level it is at least the old
\* capacity and at least the slot's current occupancy
C22_OverrideRaisesCapacity ==
  \A s \in DOMAIN slots, emergencyLevel \in {"critical", "high", "medium"} :
    LET old == slots[s].maxCapacity
        new == overrideCapacity(old, emergencyLevel)
    IN /\ emergencyLevel = "critical" => new = CeilOf(old, 3, 2)
       /\ emergencyLevel = "high" => new = CeilOf(old, 5, 4)
       /\ new >= old
       /\ new >= slots[s].currentOccupancy

\* C23: in every reachable state, every slot that is not closed or cancelled
\* has status 'available' exactly when currentOccupancy < maxCapacity and
\* 'full' otherwise
C23_StatusMatchesCapacity ==
  \A s \in DOMAIN slots :
    slots[s].status \notin {"closed", "cancelled"} =>
      slots[s].status = IF slots[s].currentOccupancy < slots[s].maxCapacity
                        THEN "available" ELSE "full"

\* the 'waiting' entries of every doctor hold the positions 1..N, each once
DenseIn(wq) ==
  \A doctorId \in Doctors :
    LET W == WaitingOf(wq, doctorId)
    IN /\ {wq[w].queuePosition : w \in W} = 1..Cardinality(W)
       /\ \A v, w \in W : wq[v].queuePosition = wq[w].queuePosition => v = w

\* C24: in every reachable state whose queues are numbered densely, the
\* expiry sweep run at the current time turns exactly the 'waiting' entries
\* with expiresAt earlier than now into 'expired', changes no other status,
\* and leaves the remaining 'waiting' entries of each doctor at 1..N
C24_SweepExpiresAndRenumbers ==
  DenseIn(waiting) =>
    LET after == cleanExpiredEntries(waiting, now)
    IN /\ Len(after) = Len(waiting)
       /\ \A i \in DOMAIN waiting :
            after[i].status =
              IF waiting[i].status = "waiting" /\ waiting[i].expiresAt < now
              THEN "expired" ELSE waiting[i].status
       /\ DenseIn(after)

\* the waiting entries of a doctor that score above a given score
WaitingAbove(doctorId, score) ==
  {w \in QueueOf(doctorId) : waiting[w].priorityScore > score}

\* C25: in every step in which allocateToken admits a request, every entry
\* of the same doctor that was already waiting with a higher score is one
\* whose own request, made at that moment, would not be admitted
C25_NoAdmissionPastHigherWaiting ==
  [][(/\ last' = Last("allocateToken", "admitted")
      /\ Len(tokens') = Len(tokens) + 1) =>
       \A w \in WaitingAbove(tokens'[Len(tokens')].doctorId,
                             tokens'[Len(tokens')].priorityScore) :
         allocateToken(slots, tokens, waiting, now, waiting[w].doctorId,
                       waiting[w].source, NoSlot,
                       waiting[w].preferredDate).result # "admitted"]_vars

(***************************************************************************)
(* SpecPrefer: doctor 1's slot of today and slot of tomorrow; requests     *)
(* that name a slot and give an appointment time before or after its       *)
(* start, and cancellation.                                                *)
(***************************************************************************)
PreferTimes == {SlotDate[1], SlotStart[2]}

InitPrefer == InitWith({1, 3}, 1)

NextPrefer ==
  \/ AllocateToken({1}, RequestSources, {NoSlot, 1, 3}, PreferTimes)
  \/ HandleCancellation

SpecPrefer == InitPrefer /\ [][NextPrefer]_vars

\* C26: in every reachable state, every booked or checked-in token sits in a
\* slot that starts at or after the token's appointmentTime, the earliest
\* acceptable time of its request
C26_SlotNotBeforeAcceptableTime ==
  \A id \in DOMAIN tokens :
    tokens[id].status \in {"booked", "checked_in"} =>
      SlotStart[tokens[id].slotId] >= tokens[id].appointmentTime

\* C28: a bulk cancellation of a slot marks every token the slot holds as
\* cancelled and adds one waiting entry of the slot's doctor per token held
C28_BulkCancelQueuesEveryPatient ==
  [][\A s \in DOMAIN slots :
       (/\ last'.op = "bulkCancelSlot"
        /\ slots[s].status # "cancelled"
        /\ slots'[s].status = "cancelled"
        /\ slots[s].allocatedTokens # <<>>)
       => /\ \A id \in Range(slots[s].allocatedTokens) :
               tokens'[id].status = "cancelled"
          /\ Len(waiting') = Len(waiting) + Len(slots[s].allocatedTokens)
          /\ \A w \in (Len(waiting) + 1)..Len(waiting') :
               waiting'[w].doctorId = SlotDoctor[s]]_vars

\* the request is admitted and its new token sits in slot p
AdmittedInto(r, tk, p) ==
  /\ r.result = "admitted"
  /\ Len(r.tk) = Len(tk) + 1
  /\ r.tk[Len(r.tk)].slotId = p
  /\ r.tk[Len(r.tk)].status = "booked"

Displaceable(doctorId, appointmentTime, score) ==
  {s \in DOMAIN slots :
     /\ SlotDoctor[s] = doctorId
     /\ SlotDate[s] >= appointmentTime
     /\ IsFull(s)
     /\ \E id \in Range(ActiveTokensOf(tokens, s)) :
          tokens[id].priorityScore < score
     /\ LaterFreeSlots(s) # {}}

NoFreeCapacity(doctorId) ==
  \A s \in DOMAIN slots : SlotDoctor[s] = doctorId => IsFull(s)

InitTie == InitWith({1, 3}, 1)

NextTie ==
  \/ AllocateToken({1}, RequestSources, {NoSlot, 1}, {0})
  \/ HandleCancellation
  \/ FastTrackEmergency({1})
  \/ OverrideSlotRules

SpecTie == InitTie /\ [][NextTie]_vars

\* id is an active occupant of slot s with the lowest score there and, among
\* the occupants tied at that score, the one created latest
LowestLatestCreated(id, s) ==
  /\ id \in Range(ActiveTokensOf(tokens, s))
  /\ \A o \in Range(ActiveTokensOf(tokens, s)) :
       \/ tokens[o].priorityScore > tokens[id].priorityScore
       \/ tokens[o].priorityScore = tokens[id].priorityScore /\ o <= id

\* C30: in every reachable state, whichever of allocateToken, handleEmergency
\* and fastTrackEmergency is called, a token it displaces is the active
\* occupant of the slot with the lowest score, the latest created among ties
C30_DisplacedIsLowestLatest ==
  \A doctorId \in WorldDoctors :
    LET c == currentSlotOf(slots, doctorId, now)
        h == handleEmergency(slots, tokens, waiting, now, doctorId)
        f == fastTrackEmergency(slots, tokens, waiting, now, doctorId)
    IN /\ h.displaced # NoToken => LowestLatestCreated(h.displaced, c)
       /\ f.displaced # NoToken => LowestLatestCreated(f.displaced, c)
       /\ \A source \in RequestSources, appointmentTime \in AppointmentTimes :
            \A p \in {NoSlot} \cup {s \in DOMAIN slots : SlotDoctor[s] = doctorId} :
              LET a == allocateToken(slots, tokens, waiting, now, doctorId,
                                     source, p, appointmentTime)
              IN a.displaced # NoToken =>
                   LowestLatestCreated(a.displaced, a.slot)

\* C31: in every step that moves an existing booked token to another slot,
\* the new slot is the earliest slot of the same doctor that starts after the
\* slot left and had a free place before the step, and the token is marked
\* isReallocation with originalSlotId = the slot it left
C31_DisplacedToNextFreeSlot ==
  [][\A t \in 1..Len(tokens) :
       tokens'[t].slotId # tokens[t].slotId =>
         /\ LaterFreeSlots(tokens[t].slotId) # {}
         /\ tokens'[t].slotId = EarliestSlot(LaterFreeSlots(tokens[t].slotId))
         /\ tokens'[t].isReallocation
         /\ tokens'[t].originalSlotId = tokens[t].slotId]_vars

(***************************************************************************)
(* SpecRealloc: handleEmergency with the saves of                          *)
(* reallocateLowerPriorityToken taken one at a time (each `await` is a     *)
(* point where another call can run), next to allocateToken and            *)
(* handleCancellation on doctor 1's slot of today and slot of tomorrow.    *)
(***************************************************************************)
\* handleEmergency's locals across its awaits: the current slot document as
\* loaded (list, counter, status), the next slot document as loaded, and the
\* token being moved
ReallocCall(pc, doctorId, slot, doc, nextSlot, nextDoc, displaced) ==
  [pc |-> pc, doctorId |-> doctorId, slot |-> slot, doc |-> doc,
   nextSlot |-> nextSlot, nextDoc |-> nextDoc, displaced |-> displaced]

InFlight == {p \in Procs : procs[p].pc # "idle"}

\* handleEmergency up to lowestPriorityToken.save(); a slot with a free
\* place, or a failed reallocation, completes in the same step
EmergencyStart(p, doctors) ==
  /\ procs[p].pc = "idle"
  /\ Len(tokens) + Cardinality(InFlight) < MaxTokens
  /\ \E doctorId \in doctors :
       LET currentSlot == currentSlotOf(slots, doctorId, now)
           h == handleEmergency(slots, tokens, waiting, now, doctorId)
           r == reallocateLowerPriorityToken(slots, tokens, currentSlot,
                                             calculatePriorityScore("emergency"),
                                             doctorId)
       IN IF h.displaced = NoToken
          THEN Apply(h, "handleEmergency")
          ELSE /\ tokens' = r.tk
               /\ procs' = [procs EXCEPT ![p] =
                    ReallocCall("release", doctorId, currentSlot,
                                slots[currentSlot],
                                r.tk[r.displaced].slotId,
                                slots[r.tk[r.displaced].slotId], r.displaced)]
               /\ last' = Last("handleEmergency", "moving")
               /\ UNCHANGED <<slots, waiting, now>>

\* slot.allocatedTokens = filter(...); currentOccupancy -= 1; reopen;
\* slot.save() -- written from the document held in memory
ReallocRelease(p) ==
  /\ procs[p].pc = "release"
  /\ LET doc == procs[p].doc
         released == [doc EXCEPT
                        !.allocatedTokens = FilterOut(@, procs[p].displaced),
                        !.currentOccupancy = @ - 1,
                        !.status = IF @ = "full" /\
                                      doc.currentOccupancy - 1 < doc.maxCapacity
                                   THEN "available" ELSE @]
     IN /\ released.currentOccupancy >= 0 - MaxDeficit
        /\ slots' = [slots EXCEPT ![procs[p].slot] =
                       [@ EXCEPT !.allocatedTokens = released.allocatedTokens,
                                 !.currentOccupancy = released.currentOccupancy,
                                 !.status = released.status]]
        /\ procs' = [procs EXCEPT ![p] = [@ EXCEPT !.pc = "push",
                                                   !.doc = released]]
  /\ last' = Last("handleEmergency", "moving")
  /\ UNCHANGED <<tokens, waiting, now>>

\* nextSlot.allocatedTokens.push(...); currentOccupancy += 1; nextSlot.save()
ReallocPush(p) ==
  /\ procs[p].pc = "push"
  /\ slots' = SaveAfterPush(slots, procs[p].nextSlot, procs[p].nextDoc,
                            procs[p].displaced)
  /\ procs' = [procs EXCEPT ![p] = [@ EXCEPT !.pc = "admit"]]
  /\ last' = Last("handleEmergency", "moving")
  /\ UNCHANGED <<tokens, waiting, now>>

\* token.save() of the emergency token and the push into the current slot
EmergencyAdmit(p) ==
  /\ procs[p].pc = "admit"
  /\ Write(Outcome(SaveAfterPush(slots, procs[p].slot, procs[p].doc,
                                 Len(tokens) + 1),
                   Append(tokens,
                          NewToken(procs[p].doctorId, procs[p].slot,
                                   "emergency",
                                   calculatePriorityScore("emergency"), now,
                                   FALSE, NoSlot)),
                   waiting, "admitted", Len(tokens) + 1, procs[p].displaced,
                   procs[p].slot),
           "handleEmergency")
  /\ procs' = [procs EXCEPT ![p] = IdleProc]
  /\ UNCHANGED now

InitRealloc == InitWith({1, 3}, 1)

NextRealloc ==
  \/ \E p \in Procs : \/ EmergencyStart(p, {1})
                      \/ ReallocRelease(p)
                      \/ ReallocPush(p)
                      \/ EmergencyAdmit(p)
  \/ AllocateToken({1}, RequestSources, {NoSlot, 1}, {0})
  \/ HandleCancellation

SpecRealloc == InitRealloc /\ [][NextRealloc]_vars

\* the slots that list token t
ListedIn(t) == {s \in DOMAIN slots : t \in Range(slots[s].allocatedTokens)}

\* C32: in every state another call can observe, a displaced token that is
\* still booked is listed by exactly one slot, the one its slotId names
C32_ReallocationAtomic ==
  \A t \in 1..Len(tokens) :
    (tokens[t].isReallocation /\ tokens[t].status \in {"booked", "checked_in"})
      => ListedIn(t) = {tokens[t].slotId}

(***************************************************************************)
(* SpecCapacity: every handler that saves a slot, on doctor 1's slot of    *)
(* today.                                                                  *)
(***************************************************************************)
InitCapacity == InitWith({1}, 1)

NextCapacity ==
  \/ AllocateToken({1}, RequestSources, {NoSlot, 1}, {0})
  \/ HandleCancellation
  \/ HandleNoShow
  \/ BulkCancelSlot
  \/ HandleEmergency({1})
  \/ FastTrackEmergency({1})
  \/ OverrideSlotRules

SpecCapacity == InitCapacity /\ [][NextCapacity]_vars

\* C33: in every step that changes some slot's maxCapacity, the operation is
\* overrideSlotRules
C33_CapacityOnlyByOverride ==
  [][(\E s \in DOMAIN slots : slots'[s].maxCapacity # slots[s].maxCapacity)
       => last'.op = "overrideSlotRules"]_vars

\* an emergency has just been fast-tracked into a slot that is now over its
\* seeded capacity
C33_Witness ==
  /\ last = Last("fastTrackEmergency", "admitted")
  /\ \E s \in DOMAIN slots :
       /\ slots[s].maxCapacity = SeedCapacity[s]
       /\ slots[s].currentOccupancy > slots[s].maxCapacity
       /\ \E t \in Range(slots[s].allocatedTokens) :
            tokens[t].source = "emergency"

\* C34: in every step, a waiting entry whose status is no longer 'waiting'
\* keeps its status
C34_WaitingStatusFinal ==
  [][\A w \in 1..Len(waiting) :
       waiting[w].status # "waiting" =>
         waiting'[w].status = waiting[w].status]_vars

(***************************************************************************)
(* SpecEligible: the two tests that decide whether the lowest occupant of  *)
(* a full slot may be displaced, applied to a full slot holding one or two *)
(* occupants of any sources, for a request of any source.                  *)
(***************************************************************************)
\* findAvailableSlot: lowestPriorityToken.priorityScore <
\* minPriorityForReallocation
lowestBelowThreshold(tk, ids, source) ==
  tk[LowestOfSortByPriority(tk, ids)].priorityScore
    < getMinPriorityForReallocation(source)

\* reallocateLowerPriorityToken: the negation of
\* lowestPriorityToken.priorityScore >= newTokenPriority
lowestBelowRequest(tk, ids, newTokenPriority) ==
  ~(tk[LowestOfSortByPriority(tk, ids)].priorityScore >= newTokenPriority)

\* a booked token of slot 1 created for a request of this source
OccupantOf(source) ==
  NewToken(1, 1, source, calculatePriorityScore(source), 0, FALSE, NoSlot)

InitEligible ==
  \E first \in Sources, second \in Sources \cup {""} :
    /\ tokens = IF second = "" THEN <<OccupantOf(first)>>
                ELSE <<OccupantOf(first), OccupantOf(second)>>
    /\ slots = [s \in {1} |->
                  [maxCapacity |-> Len(tokens), currentOccupancy |-> Len(tokens),
                   status |-> "full",
                   allocatedTokens |-> [i \in 1..Len(tokens) |-> i]]]
    /\ waiting = <<>>
    /\ now = 0
    /\ last = Last("init", "ok")
    /\ procs = [p \in Procs |-> IdleProc]

\* a request of `source` reaches the full slot: the test of the search and
\* the test of the displacement, on the same occupants
EligibilityTests ==
  \E source \in Sources, s \in DOMAIN slots :
    /\ last' = [op |-> "eligibility", result |-> "ok", source |-> source,
                slot |-> s,
                bySearch |-> lowestBelowThreshold(tokens,
                                                  slots[s].allocatedTokens,
                                                  source),
                byDisplacement |->
                  lowestBelowRequest(tokens, ActiveTokensOf(tokens, s),
                                     calculatePriorityScore(source))]
    /\ UNCHANGED <<slots, tokens, waiting, now, procs>>

NextEligible == EligibilityTests

SpecEligible == InitEligible /\ [][NextEligible]_vars

\* C35 as stated: there is a requester source and a lowest occupant, a token
\* of a source of the priority table, on which the two tests give different
\* answers
C35_RulesDisagreeOnTable ==
  \E source \in Sources, occupant \in Sources :
    LET tk == Append(tokens, OccupantOf(occupant))
        lowest == <<Len(tk)>>
    IN lowestBelowThreshold(tk, lowest, source)
         # lowestBelowRequest(tk, lowest, calculatePriorityScore(source))

\* C35, amended: whenever the two tests are applied to the occupants of a
\* full slot for a request of any source, they give the same answer
C35_RulesAgreeOnTable ==
  last.op = "eligibility" => last.bySearch = last.byDisplacement

\* a walk-in request behind a slot whose lowest occupant is a walk-in: both
\* tests refuse
C35_Witness ==
  /\ last.op = "eligibility"
  /\ last.source = "walk_in"
  /\ \E t \in 1..Len(tokens) :
       /\ tokens[t].source = "walk_in"
       /\ \A u \in 1..Len(tokens) :
            tokens[u].priorityScore >= tokens[t].priorityScore
  /\ ~last.bySearch
  /\ ~last.byDisplacement

\* C36: in every cancellation or no-show step, a slot that receives the
\* token of a promoted waiting entry had a free place for it: its occupancy
\* after the step is within its capacity
C36_PromotionOnlyIntoFreePlace ==
  [][last'.op \in {"handleCancellation", "handleNoShow"} =>
       \A s \in DOMAIN slots :
         (\E t \in Range(slots'[s].allocatedTokens) : t > Len(tokens))
           => slots'[s].currentOccupancy <= slots'[s].maxCapacity]_vars

(***************************************************************************)
(* SpecPromote: cancelToken calls that overlap, with the promotion pass    *)
(* cut after its Waiting.find and after each entry of its loop, next to    *)
(* allocateToken, on doctor 1's slot of today and slot of tomorrow.        *)
(***************************************************************************)
\* allocateFromWaitingQueue's locals across its awaits: the entries it read
\* and has not yet processed
PromoteCall(pc, doctorId, list) ==
  [pc |-> pc, doctorId |-> doctorId, list |-> list]

\* const waitingPatients = await Waiting.find({doctorId, status: 'waiting'})
\*   .sort({ priorityScore: -1, queuePosition: 1 })
PromoteRead(p) ==
  /\ procs[p].pc = "promote"
  /\ procs' = [procs EXCEPT ![p] =
       PromoteCall("loop", procs[p].doctorId,
                   SortBy(WaitingOf(waiting, procs[p].doctorId),
                          [i \in 1..Len(waiting) |-> 0 - waiting[i].priorityScore],
                          [i \in 1..Len(waiting) |-> waiting[i].queuePosition]))]
  /\ last' = Last("cancelToken", "promoting")
  /\ UNCHANGED <<slots, tokens, waiting, now>>

\* one turn of the loop over the entries read, or its end
PromoteEntry(p) ==
  /\ procs[p].pc = "loop"
  /\ IF procs[p].list = <<>>
     THEN /\ procs' = [procs EXCEPT ![p] = IdleProc]
          /\ last' = Last("cancelToken", "ok")
          /\ UNCHANGED <<slots, tokens, waiting, now>>
     ELSE LET w == Head(procs[p].list)
              slot == findAvailableSlot(slots, tokens, procs[p].doctorId,
                                        waiting[w].preferredDate,
                                        waiting[w].source)
              r == PromoteLoop(slots, tokens, waiting, procs[p].doctorId,
                               <<w>>)
          IN /\ Write(Outcome(r.sl, r.tk, r.wq, "promoting", NoToken,
                              NoToken, NoSlot), "cancelToken")
             /\ procs' = [procs EXCEPT ![p] =
                  IF slot = NoSlot THEN IdleProc
                  ELSE PromoteCall("loop", procs[p].doctorId,
                                   Tail(procs[p].list))]
             /\ UNCHANGED now

InitPromote == InitWith({1, 3}, 0)

NextPromote ==
  \/ AllocateToken({1}, {"online"}, {NoSlot}, {0})
  \/ \E p \in Procs : \/ CancelRelease(p)
                      \/ PromoteRead(p)
                      \/ PromoteEntry(p)

SpecPromote == InitPromote /\ [][NextPromote]_vars

\* C37: in every step of a promotion pass that creates a token, the token is
\* created for an entry whose stored status was 'waiting', which becomes
\* 'allocated' and references that token; and an entry that is 'allocated'
\* keeps the token it references
C37_PromotedAtMostOnce ==
  [][/\ (last'.op = "cancelToken" /\ Len(tokens') > Len(tokens)) =>
          \E w \in 1..Len(waiting) :
            /\ waiting[w].status = "waiting"
            /\ waiting'[w].status = "allocated"
            /\ waiting'[w].allocatedTokenId = Len(tokens')
     /\ \A w \in 1..Len(waiting) :
          waiting[w].status = "allocated" =>
            waiting'[w].allocatedTokenId = waiting[w].allocatedTokenId]_vars

\* C38: in every reachable state, every booked or checked-in token is listed
\* by exactly one slot, the one its slotId names, which belongs to the
\* token's doctor, and no slot lists a cancelled or no-show token
C38_TokensListedOnce ==
  /\ \A t \in 1..Len(tokens) :
       tokens[t].status \in {"booked", "checked_in"} =>
         /\ ListedIn(t) = {tokens[t].slotId}
         /\ SlotDoctor[tokens[t].slotId] = tokens[t].doctorId
  /\ \A s \in DOMAIN slots :
       \A t \in Range(slots[s].allocatedTokens) :
         tokens[t].status \notin {"cancelled", "no_show"}

\* C39: in every step, a slot whose status is 'closed' or 'cancelled' receives
\* no token and keeps its status
C39_ClosedSlotStaysClosed ==
  [][\A s \in DOMAIN slots :
       slots[s].status \in {"closed", "cancelled"} =>
         /\ Range(slots'[s].allocatedTokens) \subseteq
              Range(slots[s].allocatedTokens)
         /\ slots'[s].status = slots[s].status]_vars

\* the tokens of this state that the outcome r holds in another slot
Relocated(r) ==
  {t \in 1..Len(tokens) : r.tk[t].slotId # tokens[t].slotId}

\* the outcome r is definite, moves at most one token of this state, and
\* moves it into a slot that had a free place
SingleMoveIntoFreePlace(r) ==
  /\ r.result \in {"admitted", "queued", "rejected"}
  /\ Cardinality(Relocated(r)) <= 1
  /\ \A t \in Relocated(r) :
       slots[r.tk[t].slotId].currentOccupancy
         < slots[r.tk[t].slotId].maxCapacity

\* C40: in every reachable state, whichever of allocateToken, handleEmergency
\* and fastTrackEmergency is called, the call ends admitted, queued or
\* rejected, relocates at most one existing token, and relocates it into a
\* slot that had a free place before the call
C40_DisplacementNeverCascades ==
  \A doctorId \in WorldDoctors :
    /\ SingleMoveIntoFreePlace(
         handleEmergency(slots, tokens, waiting, now, doctorId))
    /\ SingleMoveIntoFreePlace(
         fastTrackEmergency(slots, tokens, waiting, now, doctorId))
    /\ \A source \in RequestSources, appointmentTime \in AppointmentTimes :
         \A p \in {NoSlot} \cup {s \in DOMAIN slots : SlotDoctor[s] = doctorId} :
           SingleMoveIntoFreePlace(
             allocateToken(slots, tokens, waiting, now, doctorId, source, p,
                           appointmentTime))

====
